---- MODULE Spec2Model ----
(***************************************************************************)
(* Model of pennylane/ops/op_math/controlled_decompositions.py:            *)
(* ctrl_decomp_zyz and ctrl_decomp_bisect_od, with the root-finder          *)
(* _bisect_compute_a and the matrix helpers they use.                       *)
(*                                                                         *)
(* Numbers.  An angle is an integer count of 2.5e-9 rad; the angles of a   *)
(* target operator are even counts, so theta / 2, (phi + omega) / 2 and    *)
(* (omega - phi) / 2 are exact.  A complex number is a pair <<re, im>> of  *)
(* integers and a matrix is a record [d, m] standing for m / d, compared   *)
(* by cross-multiplication.                                                *)
(***************************************************************************)
EXTENDS Integers, Sequences, FiniteSets, TLC

\* pc: the statement a call is at; fn: the decomposer called; target_operation, control_wires: its
\* arguments; angles: phi, theta, omega (line 130 / 136); u, a: the matrices of lines 194-202;
\* decomp: the list being built; result: the returned list; err: the exception raised;
\* context_active: whether the caller holds a recording context; recording, saved_recording:
\* the recording switch and the value stop_recording saved; queue: the operations recorded;
\* built: every operation constructed, in order; calls: every collaborator called, in order;
\* sol: what spo.root handed back (sol.success, sol.x) at line 55.
VARIABLES pc, fn, sol, target_operation, control_wires, angles, u, a, decomp, result, err, context_active, recording, saved_recording, queue, built, calls

vars == <<pc, fn, sol, target_operation, control_wires, angles, u, a, decomp, result, err, context_active, recording, saved_recording, queue, built, calls>>

----------------------------------------------------------------------------
(* Bounds of the model *)

\* the longest control-wire list a call is given
MaxControls == 5

----------------------------------------------------------------------------
(* Integer helpers *)

Abs(x) == IF x < 0 THEN -x ELSE x

\* 1e-8 in angle counts (atol of the outer RZ, the RY pair and the last RZ)
AtolOuter == 4

\* 1e-6 in angle counts (atol of the middle RZ)
AtolMiddle == 400

\* qml.math.isclose(x, y, atol=atol, rtol=0): |x - y| <= atol
isclose(x, y, atol) == Abs(x - y) <= atol

----------------------------------------------------------------------------
(* Complex numbers and 2x2 matrices *)

CAdd(x, y) == <<x[1] + y[1], x[2] + y[2]>>

CSub(x, y) == <<x[1] - y[1], x[2] - y[2]>>

CMul(x, y) == <<x[1] * y[1] - x[2] * y[2], x[1] * y[2] + x[2] * y[1]>>

CConj(x) == <<x[1], -x[2]>>

CScale(k, x) == <<k * x[1], k * x[2]>>

\* a matrix m / d, m = << <<m00, m01>>, <<m10, m11>> >>
Mat(d, m00, m01, m10, m11) == [d |-> d, m |-> <<<<m00, m01>>, <<m10, m11>>>>]

MatMul(p, q) == [d |-> p.d * q.d, m |-> [i \in 1..2 |-> [j \in 1..2 |-> CAdd(CMul(p.m[i][1], q.m[1][j]), CMul(p.m[i][2], q.m[2][j]))]]]

\* equality of the matrices as numbers: p.m / p.d = q.m / q.d
MatEq(p, q) == \A i \in 1..2 : \A j \in 1..2 : CScale(q.d, p.m[i][j]) = CScale(p.d, q.m[i][j])

\* np.transpose(np.conj(matrix))
matrix_adjoint(matrix) == [d |-> matrix.d, m |-> [i \in 1..2 |-> [j \in 1..2 |-> CConj(matrix.m[j][i])]]]

Identity2 == Mat(1, <<1, 0>>, <<0, 0>>, <<0, 0>>, <<1, 0>>)

\* sx, the Pauli X matrix
sx == Mat(1, <<0, 0>>, <<1, 0>>, <<1, 0>>, <<0, 0>>)

\* the all-zero matrix: the value of u and a before they are assigned
NoMatrix == Mat(1, <<0, 0>>, <<0, 0>>, <<0, 0>>, <<0, 0>>)

\* the determinant of m / d is Det(p) / (p.d * p.d)
Det(p) == CSub(CMul(p.m[1][1], p.m[2][2]), CMul(p.m[1][2], p.m[2][1]))

\* np.isclose(num / den, 0) with numpy's defaults atol=1e-8, rtol=1e-5: |num / den| <= 1e-8
np_isclose_zero(num, den) == Abs(num) <= den \div 100000000

\* np.isclose(num / den, 1) with numpy's defaults: |num / den - 1| <= 1e-8 + 1e-5 * 1
np_isclose_one(num, den) == Abs(num - den) <= (1001 * den) \div 100000000

\* _param_su2(ar, ai, br, bi) of the reals x[1..4] / x[5]
param_su2(x) == Mat(x[5], <<x[1], x[2]>>, <<-x[3], x[4]>>, <<x[3], x[4]>>, <<x[1], -x[2]>>)

\* at @ sx @ a @ sx @ at @ sx @ a @ sx of optfunc
expect_u(am) == LET at == matrix_adjoint(am) IN MatMul(at, MatMul(sx, MatMul(am, MatMul(sx, MatMul(at, MatMul(sx, MatMul(am, sx)))))))

\* _convert_to_su2(U) = U * exp(-i * angle(det U) / 2), for the determinants 1 (factor 1) and -1 (factor -i)
convert_to_su2(p) == CASE Det(p) = <<p.d * p.d, 0>> -> p [] Det(p) = <<-(p.d * p.d), 0>> -> [d |-> p.d, m |-> [i \in 1..2 |-> [j \in 1..2 |-> CMul(<<0, -1>>, p.m[i][j])]]]

----------------------------------------------------------------------------
(* Wires, operators and elementary operations *)

\* the wire of every single-qubit target operator
TargetWire == 0

\* control_wires + target_wire
WiresAdd(cw, tw) == cw \o tw

\* an elementary operation: its class and the arguments it was built with
Op(name, wires, cw, work, angle, mat) == [name |-> name, wires |-> wires, control_wires |-> cw, work_wires |-> work, angle |-> angle, mat |-> mat]

\* qml.RZ(angle, wires=wires)
RZ(angle, wires) == Op("RZ", wires, <<>>, <<>>, angle, NoMatrix)

\* qml.RY(angle, wires=wires)
RY(angle, wires) == Op("RY", wires, <<>>, <<>>, angle, NoMatrix)

\* the qml.Rot the Euler-angle fallback builds; only its construction matters here, its angles are kept in the call's locals
Rot(wires) == Op("Rot", wires, <<>>, <<>>, 0, NoMatrix)

\* qml.MultiControlledX(wires=wires): every wire but the last is a control wire and the last is the target
MultiControlledX(wires) == Op("MultiControlledX", <<wires[Len(wires)]>>, SubSeq(wires, 1, Len(wires) - 1), <<>>, 0, NoMatrix)

\* a target operator: class name, wires, the Euler angles it exposes (if any) and its 2x2 matrix (if any)
Operator(cls, wires, has_angles, ang, has_matrix, mat) == [cls |-> cls, wires |-> wires, has_angles |-> has_angles, angles |-> ang, has_matrix |-> has_matrix, matrix |-> mat]

NoAngles == <<0, 0, 0>>

NoOperator == Operator("", <<>>, FALSE, NoAngles, FALSE, NoMatrix)

\* an error raised by a call: exception type, message, the operator class and the matrix it names
Error(type, msg, cls, mat) == [type |-> type, msg |-> msg, cls |-> cls, mat |-> mat]

NoError == Error("", "", "", NoMatrix)

SingleQubitError(op) == Error("ValueError", "The target operation must be a single-qubit operation", op.cls, NoMatrix)

\* qml.matrix(op) / op.matrix() of an operator that defines no matrix
MatrixUndefinedError(op) == Error("MatrixUndefinedError", "", op.cls, NoMatrix)

----------------------------------------------------------------------------
(* The recording context *)

\* an operation is added to the active recording context when it is built
Record(q, active, ops) == IF active THEN q \o ops ELSE q

\* with qml.QueuingManager.stop_recording(): nothing records inside the block
StopRecordingEnter(active) == FALSE

\* leaving the block restores the recording state saved on entry
StopRecordingExit(saved) == saved

\* variant: the fallback called outside any stop_recording block
FallbackUnwrapped(active) == active

\* line 132: the fallback of lines 133-135 runs inside a stop_recording block
FallbackBlockEnter(active) == StopRecordingEnter(active)

----------------------------------------------------------------------------
(* ctrl_decomp_zyz: the emitted sequence *)

\* variant: the first RZ appended without the tolerance test
FirstRZAlways(phi, target_wire) == <<RZ(phi, target_wire)>>

\* if not isclose(phi, 0.0, atol=1e-8, rtol=0): decomp.append(RZ(phi))
FirstRZ(phi, target_wire) == IF ~isclose(phi, 0, AtolOuter) THEN <<RZ(phi, target_wire)>> ELSE <<>>

\* variant: no MultiControlledX when theta/2 is negligible
YBlockOneMCX(theta, target_wire, cw) == IF ~isclose(theta \div 2, 0, AtolOuter) THEN <<RY(theta \div 2, target_wire), MultiControlledX(WiresAdd(cw, target_wire)), RY(-(theta \div 2), target_wire)>> ELSE <<>>

\* variant: the two RY rotations exchanged
YBlockSwapped(theta, target_wire, cw) == IF ~isclose(theta \div 2, 0, AtolOuter) THEN <<RY(-(theta \div 2), target_wire), MultiControlledX(WiresAdd(cw, target_wire)), RY(theta \div 2, target_wire)>> ELSE <<MultiControlledX(WiresAdd(cw, target_wire))>>

\* RY(theta/2), MultiControlledX, RY(-theta/2), or the MultiControlledX alone when theta/2 is negligible
YBlock(theta, target_wire, cw) == IF ~isclose(theta \div 2, 0, AtolOuter) THEN <<RY(theta \div 2, target_wire), MultiControlledX(WiresAdd(cw, target_wire)), RY(-(theta \div 2), target_wire)>> ELSE <<MultiControlledX(WiresAdd(cw, target_wire))>>

\* variant: the middle RZ tested against 1e-8 instead of 1e-6
MiddleRZOuterAtol(phi, omega, target_wire) == IF ~isclose(-((phi + omega) \div 2), 0, AtolOuter) THEN <<RZ(-((phi + omega) \div 2), target_wire)>> ELSE <<>>

\* if not isclose(-(phi + omega) / 2, 0.0, atol=1e-6, rtol=0): decomp.append(RZ(-(phi + omega) / 2))
MiddleRZ(phi, omega, target_wire) == IF ~isclose(-((phi + omega) \div 2), 0, AtolMiddle) THEN <<RZ(-((phi + omega) \div 2), target_wire)>> ELSE <<>>

\* variant: the second MultiControlledX appended twice
SecondMCXTwice(target_wire, cw) == <<MultiControlledX(WiresAdd(cw, target_wire)), MultiControlledX(WiresAdd(cw, target_wire))>>

\* decomp.append(MultiControlledX(wires=control_wires + target_wire)), unconditionally
SecondMCX(target_wire, cw) == <<MultiControlledX(WiresAdd(cw, target_wire))>>

\* variant: the last RZ appended without the tolerance test
LastRZAlways(phi, omega, target_wire) == <<RZ((omega - phi) \div 2, target_wire)>>

\* variant: the last RZ built with (omega + phi) / 2
LastRZWrongSign(phi, omega, target_wire) == IF ~isclose((omega - phi) \div 2, 0, AtolOuter) THEN <<RZ((omega + phi) \div 2, target_wire)>> ELSE <<>>

\* if not isclose((omega - phi) / 2, 0.0, atol=1e-8, rtol=0): decomp.append(RZ((omega - phi) / 2))
LastRZ(phi, omega, target_wire) == IF ~isclose((omega - phi) \div 2, 0, AtolOuter) THEN <<RZ((omega - phi) \div 2, target_wire)>> ELSE <<>>

\* the list built by lines 138-158, in construction order
ZyzDecomp(phi, theta, omega, target_wire, cw) == FirstRZ(phi, target_wire) \o YBlock(theta, target_wire, cw) \o MiddleRZ(phi, omega, target_wire) \o SecondMCX(target_wire, cw) \o LastRZ(phi, omega, target_wire)

----------------------------------------------------------------------------
(* Inputs *)

\* Euler angles around the tolerances, and the angles 0.123, 0.456, 0.789 and pi of the tests
PhiVals == {0, 4, -4, 6, -6, 49200000, 1256637062}

ThetaVals == {0, 8, -8, 10, -10, 182400000}

OmegaVals == {0, 4, 6, -6, 10, 796, 802, 315600000, -49200000}

AngleTriples == {<<p, t, o>> : p \in PhiVals, t \in ThetaVals, o \in OmegaVals}

\* control-wire lists: wires 1..n in ascending or descending order, duplicate-free and disjoint from the target wire
ControlLists(lo) == UNION {{[i \in 1..n |-> i], [i \in 1..n |-> n + 1 - i]} : n \in lo..MaxControls}

\* a single-qubit unitary given by its matrix, exposing no angles (single_qubit_rot_angles raises NotImplementedError)
QubitUnitary(mat) == Operator("QubitUnitary", <<TargetWire>>, FALSE, NoAngles, TRUE, mat)

\* qml.CNOT([0, 1]): two wires
CNOT == Operator("CNOT", <<0, 1>>, FALSE, NoAngles, TRUE, NoMatrix)

\* a one-wire operator that defines neither angles nor a matrix
WireCut == Operator("WireCut", <<TargetWire>>, FALSE, NoAngles, FALSE, NoMatrix)

\* targets given to ctrl_decomp_zyz: operators exposing their angles (their matrix is not read), and the three above
ZyzTargets == {Operator("Rot", <<TargetWire>>, TRUE, t, TRUE, NoMatrix) : t \in AngleTriples} \cup {QubitUnitary(Identity2), CNOT, WireCut}

----------------------------------------------------------------------------
(* State *)

\* sol before spo.root has run
NoSolution == [success |-> FALSE, x |-> <<0, 0, 0, 0, 1>>]

NoResult == <<Op("None", <<>>, <<>>, <<>>, 0, NoMatrix)>>

Init == /\ pc = "idle"
        /\ fn = ""
        /\ sol = NoSolution
        /\ target_operation = NoOperator
        /\ control_wires = <<>>
        /\ angles = NoAngles
        /\ u = NoMatrix
        /\ a = NoMatrix
        /\ decomp = <<>>
        /\ result = NoResult
        /\ err = NoError
        /\ context_active \in BOOLEAN
        /\ recording = context_active
        /\ saved_recording = FALSE
        /\ queue = <<>>
        /\ built = <<>>
        /\ calls = <<>>

\* raise e: the call ends without a return value
Raise(e) == /\ err' = e
            /\ pc' = "raised"

----------------------------------------------------------------------------
(* ctrl_decomp_zyz *)

\* a caller invokes ctrl_decomp_zyz(target_operation, control_wires)
CallZyz == /\ pc = "idle"
           /\ \E op \in ZyzTargets, cw \in ControlLists(1) :
                /\ target_operation' = op
                /\ control_wires' = cw
           /\ fn' = "ctrl_decomp_zyz"
           /\ pc' = "zyz_validate"
           /\ UNCHANGED <<sol, angles, u, a, decomp, result, err, context_active, recording, saved_recording, queue, built, calls>>

\* variant: the check accepts any operator with at least one wire
IsSingleQubitLoose(op) == Len(op.wires) >= 1

\* len(target_operation.wires) != 1 raises
IsSingleQubit(op) == Len(op.wires) = 1

\* lines 121-127
ZyzValidate == /\ pc = "zyz_validate"
               /\ IF ~IsSingleQubit(target_operation)
                    THEN Raise(SingleQubitError(target_operation))
                    ELSE /\ pc' = "zyz_angles"
                         /\ err' = err
               /\ UNCHANGED <<fn, sol, target_operation, control_wires, angles, u, a, decomp, result, context_active, recording, saved_recording, queue, built, calls>>

\* lines 129-132: the operator's own angles, or NotImplementedError and entry into the stop_recording block
ZyzAngles == /\ pc = "zyz_angles"
             /\ calls' = Append(calls, "single_qubit_rot_angles")
             /\ IF target_operation.has_angles
                  THEN /\ angles' = target_operation.angles
                       /\ pc' = "zyz_emit"
                       /\ UNCHANGED <<recording, saved_recording>>
                  ELSE /\ saved_recording' = recording
                       /\ recording' = FallbackBlockEnter(recording)
                       /\ pc' = "zyz_fallback"
                       /\ UNCHANGED angles
             /\ UNCHANGED <<fn, sol, target_operation, control_wires, u, a, decomp, result, err, context_active, queue, built>>

\* lines 133-135, inside the block: qml.matrix(target_operation), then zyz_decomposition builds a Rot
ZyzFallback == /\ pc = "zyz_fallback"
               /\ IF ~target_operation.has_matrix
                    THEN /\ calls' = Append(calls, "matrix")
                         /\ err' = MatrixUndefinedError(target_operation)
                         /\ pc' = "zyz_fallback_raise"
                         /\ UNCHANGED <<angles, queue, built>>
                    ELSE /\ calls' = calls \o <<"matrix", "zyz_decomposition">>
                         /\ \E t \in AngleTriples : angles' = t
                         /\ built' = Append(built, Rot(target_operation.wires))
                         /\ queue' = Record(queue, recording, <<Rot(target_operation.wires)>>)
                         /\ pc' = "zyz_fallback_exit"
                         /\ UNCHANGED err
               /\ UNCHANGED <<fn, sol, target_operation, control_wires, u, a, decomp, result, context_active, recording, saved_recording>>

\* leaving the with block: recording is restored, on return (line 136 follows) and on an exception alike
ZyzFallbackExit == /\ pc \in {"zyz_fallback_exit", "zyz_fallback_raise"}
                   /\ recording' = StopRecordingExit(saved_recording)
                   /\ IF pc = "zyz_fallback_raise"
                        THEN /\ pc' = "raised"
                             /\ UNCHANGED calls
                        ELSE /\ pc' = "zyz_emit"
                             /\ calls' = Append(calls, "single_qubit_rot_angles")
                   /\ UNCHANGED <<fn, sol, target_operation, control_wires, angles, u, a, decomp, result, err, context_active, saved_recording, queue, built>>

\* lines 138-156: the operations are built in list order, each recorded as it is built
ZyzEmit == /\ pc = "zyz_emit"
           /\ decomp' = ZyzDecomp(angles[1], angles[2], angles[3], target_operation.wires, control_wires)
           /\ built' = built \o decomp'
           /\ queue' = Record(queue, recording, decomp')
           /\ pc' = "zyz_return"
           /\ UNCHANGED <<fn, sol, target_operation, control_wires, angles, u, a, result, err, context_active, recording, saved_recording, calls>>

\* line 158
ZyzReturn == /\ pc = "zyz_return"
             /\ result' = decomp
             /\ pc' = "done"
             /\ UNCHANGED <<fn, sol, target_operation, control_wires, angles, u, a, decomp, err, context_active, recording, saved_recording, queue, built, calls>>

----------------------------------------------------------------------------
(* ctrl_decomp_bisect_od *)

\* qml.QubitUnitary(a, target_wire)
QubitUnitaryOp(mat, wires) == Op("QubitUnitary", wires, <<>>, <<>>, 0, mat)

\* qml.adjoint(qml.QubitUnitary(a, target_wire)): mat is the base's matrix
AdjointOp(mat, wires) == Op("Adjoint(QubitUnitary)", wires, <<>>, <<>>, 0, mat)

\* mcx(_lk, _rk) = qml.MultiControlledX(control_wires=_lk, wires=target_wire, work_wires=_rk)
mcx(lk, rk, target_wire) == Op("MultiControlledX", target_wire, lk, rk, 0, NoMatrix)

\* variant: the split point rounded up
MidCeil(cw) == (Len(cw) + 1) \div 2

\* mid = len(control_wires) // 2
Mid(cw) == Len(cw) \div 2

\* lk = control_wires[:mid]
Lk(cw) == SubSeq(cw, 1, Mid(cw))

\* variant: rk taken as the whole control-wire list
RkWhole(cw) == cw

\* rk = control_wires[mid:]
Rk(cw) == SubSeq(cw, Mid(cw) + 1, Len(cw))

\* variant: op_mcx2 controlled on lk like op_mcx1
OdDecompSameHalf(am, target_wire, cw) == <<mcx(Lk(cw), Rk(cw), target_wire), QubitUnitaryOp(am, target_wire), mcx(Lk(cw), Rk(cw), target_wire), AdjointOp(am, target_wire), mcx(Lk(cw), Rk(cw), target_wire), QubitUnitaryOp(am, target_wire), mcx(Lk(cw), Rk(cw), target_wire), AdjointOp(am, target_wire)>>

\* [op_mcx1(), op_a(), op_mcx2(), op_at(), op_mcx1(), op_a(), op_mcx2(), op_at()]
OdDecomp(am, target_wire, cw) == <<mcx(Lk(cw), Rk(cw), target_wire), QubitUnitaryOp(am, target_wire), mcx(Rk(cw), Lk(cw), target_wire), AdjointOp(am, target_wire), mcx(Lk(cw), Rk(cw), target_wire), QubitUnitaryOp(am, target_wire), mcx(Rk(cw), Lk(cw), target_wire), AdjointOp(am, target_wire)>>

\* every operation line 215 builds, in order: op_at() builds its base QubitUnitary and then the adjoint of it
OdBuilt(am, target_wire, cw) == <<mcx(Lk(cw), Rk(cw), target_wire), QubitUnitaryOp(am, target_wire), mcx(Rk(cw), Lk(cw), target_wire), QubitUnitaryOp(am, target_wire), AdjointOp(am, target_wire), mcx(Lk(cw), Rk(cw), target_wire), QubitUnitaryOp(am, target_wire), mcx(Rk(cw), Lk(cw), target_wire), QubitUnitaryOp(am, target_wire), AdjointOp(am, target_wire)>>

RealOffDiagonalError(um) == Error("ValueError", "Target operation's matrix must have real off-diagonal", "", um)

UnableToComputeError(um) == Error("ValueError", "Unable to compute A matrix for U matrix", "", um)

NotSu2Error(am) == Error("AssertionError", "A matrix is not SU(2)", "", am)

\* variant: the imaginary parts of the diagonal entries tested instead
OffDiagonalNotRealDiagIndex(um) == ~np_isclose_zero(um.m[1][1][2], um.d) \/ ~np_isclose_zero(um.m[2][2][2], um.d)

\* not np.isclose(ui[1,0], 0) or not np.isclose(ui[0,1], 0)
OffDiagonalNotReal(um) == ~np_isclose_zero(um.m[2][1][2], um.d) \/ ~np_isclose_zero(um.m[1][2][2], um.d)

\* variant: the determinant check left out
DetIsOneUnchecked(am) == TRUE

\* np.isclose(npl.det(a), 1); the determinant of a _param_su2 matrix is real
DetIsOne(am) == np_isclose_one(Det(am)[1], am.d * am.d)

\* what spo.root may hand back as sol.x (x[1..4] / x[5]): the starting point, exact roots for some targets, and points off the unit sphere
SolverPoints == {<<10, 0, 0, 0, 10>>, <<6, 0, 8, 0, 10>>, <<8, 0, 6, 0, 10>>, <<6, 8, 0, 0, 10>>, <<0, 0, 6, 8, 10>>, <<5, -5, 5, 5, 10>>, <<10, 0, 6, 0, 10>>, <<0, 0, 0, 0, 10>>}

\* target matrices: the identity, its negative, two rotations with rational entries, Pauli Z, Pauli X and i X
MinusIdentity2 == Mat(1, <<-1, 0>>, <<0, 0>>, <<0, 0>>, <<-1, 0>>)

RationalOffDiag == Mat(625, <<-527, 0>>, <<-336, 0>>, <<336, 0>>, <<-527, 0>>)

RationalDiag == Mat(625, <<-527, 336>>, <<0, 0>>, <<0, 0>>, <<-527, -336>>)

PauliZMatrix == Mat(1, <<1, 0>>, <<0, 0>>, <<0, 0>>, <<-1, 0>>)

ImagOffDiag == Mat(1, <<0, 0>>, <<0, 1>>, <<0, 1>>, <<0, 0>>)

\* targets given to ctrl_decomp_bisect_od
OdTargets == {QubitUnitary(Identity2), QubitUnitary(MinusIdentity2), QubitUnitary(RationalOffDiag), QubitUnitary(RationalDiag), QubitUnitary(ImagOffDiag), Operator("PauliZ", <<TargetWire>>, TRUE, <<1256637062, 0, 0>>, TRUE, PauliZMatrix), Operator("PauliX", <<TargetWire>>, FALSE, NoAngles, TRUE, sx), CNOT, WireCut}

\* a caller invokes ctrl_decomp_bisect_od(target_operation, control_wires)
CallOd == /\ pc = "idle"
          /\ \E op \in OdTargets, cw \in ControlLists(0) :
               /\ target_operation' = op
               /\ control_wires' = cw
          /\ fn' = "ctrl_decomp_bisect_od"
          /\ pc' = "od_validate"
          /\ UNCHANGED <<sol, angles, u, a, decomp, result, err, context_active, recording, saved_recording, queue, built, calls>>

\* lines 186-192
OdValidate == /\ pc = "od_validate"
              /\ IF ~IsSingleQubit(target_operation)
                   THEN Raise(SingleQubitError(target_operation))
                   ELSE /\ pc' = "od_matrix"
                        /\ err' = err
              /\ UNCHANGED <<fn, sol, target_operation, control_wires, angles, u, a, decomp, result, context_active, recording, saved_recording, queue, built, calls>>

\* lines 194-200
OdMatrix == /\ pc = "od_matrix"
            /\ IF ~target_operation.has_matrix
                 THEN /\ calls' = Append(calls, "matrix")
                      /\ Raise(MatrixUndefinedError(target_operation))
                      /\ UNCHANGED u
                 ELSE /\ calls' = calls \o <<"matrix", "_convert_to_su2">>
                      /\ u' = convert_to_su2(target_operation.matrix)
                      /\ IF OffDiagonalNotReal(u')
                           THEN Raise(RealOffDiagonalError(u'))
                           ELSE /\ pc' = "od_solve"
                                /\ err' = err
            /\ UNCHANGED <<fn, sol, target_operation, control_wires, angles, a, decomp, result, context_active, recording, saved_recording, queue, built>>

\* line 202, _bisect_compute_a (lines 40-65): the solver reports success or not and hands back a point
OdSolve == /\ pc = "od_solve"
           /\ calls' = Append(calls, "_bisect_compute_a")
           /\ \E success \in BOOLEAN, x \in SolverPoints :
                /\ sol' = [success |-> success, x |-> x]
                /\ IF ~success
                     THEN /\ Raise(UnableToComputeError(u))
                          /\ UNCHANGED a
                     ELSE IF ~DetIsOne(param_su2(x))
                            THEN /\ Raise(NotSu2Error(param_su2(x)))
                                 /\ UNCHANGED a
                            ELSE /\ a' = param_su2(x)
                                 /\ pc' = "od_emit"
                                 /\ err' = err
           /\ UNCHANGED <<fn, target_operation, control_wires, angles, u, decomp, result, context_active, recording, saved_recording, queue, built>>

\* lines 204-215: the adjoint takes its base out of the recording, so the context holds the 8 listed operations
OdEmit == /\ pc = "od_emit"
          /\ decomp' = OdDecomp(a, target_operation.wires, control_wires)
          /\ built' = built \o OdBuilt(a, target_operation.wires, control_wires)
          /\ queue' = Record(queue, recording, decomp')
          /\ pc' = "od_return"
          /\ UNCHANGED <<fn, sol, target_operation, control_wires, angles, u, a, result, err, context_active, recording, saved_recording, calls>>

\* line 215
OdReturn == /\ pc = "od_return"
            /\ result' = decomp
            /\ pc' = "done"
            /\ UNCHANGED <<fn, sol, target_operation, control_wires, angles, u, a, decomp, err, context_active, recording, saved_recording, queue, built, calls>>

----------------------------------------------------------------------------
(* The action of an emitted sequence on the target wire *)

\* the 2x2 matrix an operation applies to the target wire when exactly the wires in active are on
OpMatrix(op, active) == CASE op.name = "MultiControlledX" -> (IF \A i \in 1..Len(op.control_wires) : op.control_wires[i] \in active THEN sx ELSE Identity2) [] op.name = "QubitUnitary" -> op.mat [] op.name = "Adjoint(QubitUnitary)" -> matrix_adjoint(op.mat)

RECURSIVE Compose(_, _)
\* the product of the operations' matrices, the first operation of the list applied first
Compose(ops, active) == IF ops = <<>> THEN Identity2 ELSE MatMul(Compose(Tail(ops), active), OpMatrix(Head(ops), active))

\* the wires of a wire list, as a set
WireSet(cw) == {cw[i] : i \in 1..Len(cw)}

Next == \/ CallZyz
        \/ ZyzValidate
        \/ ZyzAngles
        \/ ZyzFallback
        \/ ZyzFallbackExit
        \/ ZyzEmit
        \/ ZyzReturn
        \/ CallOd
        \/ OdValidate
        \/ OdMatrix
        \/ OdSolve
        \/ OdEmit
        \/ OdReturn

Spec == Init /\ [][Next]_vars

----------------------------------------------------------------------------
(* Claims *)

\* C1: when the factor a satisfies a^dagger X a X a^dagger X a X = u, the 8 operations
\* ctrl_decomp_bisect_od returns, composed in list order, apply u to the target wire when
\* every control wire is active and the identity under every other assignment.
C1_BisectComposesControlledU == (pc = "done" /\ fn = "ctrl_decomp_bisect_od" /\ MatEq(expect_u(a), u)) => \A active \in SUBSET WireSet(control_wires) : MatEq(Compose(result, active), IF active = WireSet(control_wires) THEN u ELSE Identity2)

C1_Witness == pc = "done" /\ fn = "ctrl_decomp_bisect_od" /\ MatEq(expect_u(a), u) /\ u = RationalOffDiag /\ Len(control_wires) = 3 /\ Len(result) = 8

\* C2: with phi, theta/2, (phi+omega)/2 and (omega-phi)/2 all outside their tolerances,
\* ctrl_decomp_zyz returns exactly RZ(phi), RY(theta/2), MultiControlledX, RY(-theta/2),
\* RZ(-(phi+omega)/2), MultiControlledX, RZ((omega-phi)/2), the MultiControlledX over the
\* control wires followed by the target wire.
C2_ZyzSevenOperations == (pc = "done" /\ fn = "ctrl_decomp_zyz" /\ Abs(angles[1]) > AtolOuter /\ Abs(angles[2] \div 2) > AtolOuter /\ Abs((angles[1] + angles[3]) \div 2) > AtolMiddle /\ Abs((angles[3] - angles[1]) \div 2) > AtolOuter) =>
    LET t == <<TargetWire>>
        m == [name |-> "MultiControlledX", wires |-> t, control_wires |-> control_wires, work_wires |-> <<>>, angle |-> 0, mat |-> NoMatrix]
        rot(name, x) == [name |-> name, wires |-> t, control_wires |-> <<>>, work_wires |-> <<>>, angle |-> x, mat |-> NoMatrix]
    IN result = <<rot("RZ", angles[1]), rot("RY", angles[2] \div 2), m, rot("RY", -(angles[2] \div 2)), rot("RZ", -((angles[1] + angles[3]) \div 2)), m, rot("RZ", (angles[3] - angles[1]) \div 2)>>

C2_Witness == pc = "done" /\ fn = "ctrl_decomp_zyz" /\ angles = <<49200000, 182400000, 315600000>> /\ control_wires = <<1, 2, 3>> /\ Len(result) = 7 /\ result[5].angle = -182400000

\* C3: ctrl_decomp_bisect_od returns exactly 8 operations, MCX(controls=L, work=R),
\* QubitUnitary(a), MCX(controls=R, work=L), adjoint of QubitUnitary(a), and the same four
\* again, L the first floor(n/2) control wires and R the rest, whatever the number of
\* control wires.
C3_BisectEightOperations == (fn = "ctrl_decomp_bisect_od" /\ pc \in {"od_emit", "od_return", "done"}) =>
    LET n == Len(control_wires)
        t == <<TargetWire>>
        L == [i \in 1..(n \div 2) |-> control_wires[i]]
        R == [i \in 1..(n - n \div 2) |-> control_wires[n \div 2 + i]]
        m(c, w) == [name |-> "MultiControlledX", wires |-> t, control_wires |-> c, work_wires |-> w, angle |-> 0, mat |-> NoMatrix]
        qu == [name |-> "QubitUnitary", wires |-> t, control_wires |-> <<>>, work_wires |-> <<>>, angle |-> 0, mat |-> a]
        ad == [name |-> "Adjoint(QubitUnitary)", wires |-> t, control_wires |-> <<>>, work_wires |-> <<>>, angle |-> 0, mat |-> a]
    IN /\ err = NoError
       /\ ~OffDiagonalNotReal(u)
       /\ pc = "od_return" => decomp = <<m(L, R), qu, m(R, L), ad, m(L, R), qu, m(R, L), ad>>
       /\ pc = "done" => (Len(result) = 8 /\ result = <<m(L, R), qu, m(R, L), ad, m(L, R), qu, m(R, L), ad>>)

C3_Witness == pc = "done" /\ fn = "ctrl_decomp_bisect_od" /\ control_wires = <<5, 4, 3, 2, 1>> /\ Len(result) = 8 /\ result[1].control_wires = <<5, 4>> /\ result[1].work_wires = <<3, 2, 1>> /\ result[3].control_wires = <<3, 2, 1>>

\* C4: given a target operation on a number of wires other than one, both decomposers raise
\* the ValueError "The target operation must be a single-qubit operation" naming the
\* operator's class; the check is the first step: nothing is called or built before it, and
\* no sequence is returned.
C4_SingleQubitValidationFirst ==
    /\ pc \in {"zyz_validate", "od_validate"} => (calls = <<>> /\ built = <<>> /\ decomp = <<>> /\ err = NoError)
    /\ (pc \notin {"idle", "zyz_validate", "od_validate"} /\ Len(target_operation.wires) # 1) =>
         /\ pc = "raised"
         /\ err.type = "ValueError"
         /\ err.msg = "The target operation must be a single-qubit operation"
         /\ err.cls = target_operation.cls
         /\ calls = <<>> /\ built = <<>> /\ queue = <<>>
         /\ angles = NoAngles /\ u = NoMatrix /\ a = NoMatrix
         /\ decomp = <<>> /\ result = NoResult

C4_Witness == pc = "raised" /\ fn = "ctrl_decomp_bisect_od" /\ target_operation.cls = "CNOT" /\ err.type = "ValueError" /\ err.cls = "CNOT"

\* C5: ctrl_decomp_zyz emits the first RZ(phi) iff |phi| > 1e-8, the RY(theta/2), RY(-theta/2)
\* pair iff |theta/2| > 1e-8, the middle RZ(-(phi+omega)/2) iff |(phi+omega)/2| > 1e-6 and
\* the last RZ((omega-phi)/2) iff |(omega-phi)/2| > 1e-8; every rotation of the returned
\* list has an angle outside its tolerance.
C5_ZyzNoTrivialRotation == (pc = "done" /\ fn = "ctrl_decomp_zyz") =>
    LET n == Len(result)
        mcxs == {i \in 1..n : result[i].name = "MultiControlledX"}
        m1 == CHOOSE i \in mcxs : \A j \in mcxs : i <= j
        m2 == CHOOSE i \in mcxs : \A j \in mcxs : j <= i
        phi == angles[1]
        theta == angles[2]
        omega == angles[3]
    IN /\ Cardinality(mcxs) = 2
       /\ (result[1].name = "RZ") <=> (Abs(phi) > AtolOuter)
       /\ (result[1].name = "RZ") => (result[1].angle = phi)
       /\ (\E i \in 1..n : result[i].name = "RY") <=> (Abs(theta \div 2) > AtolOuter)
       /\ (Abs(theta \div 2) > AtolOuter) => (m1 > 1 /\ result[m1 - 1].name = "RY" /\ result[m1 - 1].angle = theta \div 2 /\ result[m1 + 1].name = "RY" /\ result[m1 + 1].angle = -(theta \div 2) /\ Cardinality({i \in 1..n : result[i].name = "RY"}) = 2)
       /\ (result[m2 - 1].name = "RZ") <=> (Abs((phi + omega) \div 2) > AtolMiddle)
       /\ (result[m2 - 1].name = "RZ") => (result[m2 - 1].angle = -((phi + omega) \div 2))
       /\ (result[n].name = "RZ") <=> (Abs((omega - phi) \div 2) > AtolOuter)
       /\ (result[n].name = "RZ") => (result[n].angle = (omega - phi) \div 2)
       /\ \A i \in 1..n : result[i].name \in {"RZ", "RY"} => Abs(result[i].angle) > (IF i = m2 - 1 /\ result[i].name = "RZ" THEN AtolMiddle ELSE AtolOuter)

C5_Witness == pc = "done" /\ fn = "ctrl_decomp_zyz" /\ angles = <<1256637062, 0, 0>> /\ control_wires = <<1>> /\ result = <<RZ(1256637062, <<0>>), MultiControlledX(<<1, 0>>), RZ(-628318531, <<0>>), MultiControlledX(<<1, 0>>), RZ(-628318531, <<0>>)>>

C7_Original_SingleMCX == (pc = "done" /\ fn = "ctrl_decomp_zyz" /\ angles = <<0, 0, 0>>) => (Len(result) = 1 /\ result[1].name = "MultiControlledX")

\* C7 amended: for phi = theta = omega = 0 ctrl_decomp_zyz returns exactly two
\* multiply-controlled NOTs, each over the control wires and the target wire, and nothing else.
C7_ZyzIdentityTwoMCX == (pc = "done" /\ fn = "ctrl_decomp_zyz" /\ angles = <<0, 0, 0>>) =>
    LET m == [name |-> "MultiControlledX", wires |-> <<TargetWire>>, control_wires |-> control_wires, work_wires |-> <<>>, angle |-> 0, mat |-> NoMatrix]
    IN result = <<m, m>>

C7_Witness == pc = "done" /\ fn = "ctrl_decomp_zyz" /\ angles = <<0, 0, 0>> /\ Len(result) = 2 /\ result[1].name = "MultiControlledX" /\ result[2].name = "MultiControlledX"

\* C8: for phi = omega = 0 and nonzero theta ctrl_decomp_zyz emits no RZ at all and returns
\* at most 5 operations.
C8_ZyzPureYNoRZ == (pc = "done" /\ fn = "ctrl_decomp_zyz" /\ angles[1] = 0 /\ angles[3] = 0 /\ angles[2] # 0) => (Len(result) <= 5 /\ \A i \in 1..Len(result) : result[i].name # "RZ")

C8_Witness == pc = "done" /\ fn = "ctrl_decomp_zyz" /\ angles = <<0, 182400000, 0>> /\ Len(result) = 4 /\ result[1].name = "RY" /\ result[3].name = "RY"

\* C9 as stated: ctrl_decomp_zyz returns at most five operations.
C9_Original_AtMostFive == (pc = "done" /\ fn = "ctrl_decomp_zyz") => Len(result) <= 5

\* C9 amended: ctrl_decomp_zyz returns at most seven operations, for every single-qubit
\* target operator and every control-wire list.
C9_ZyzAtMostSeven == (pc \in {"zyz_return", "done"} /\ fn = "ctrl_decomp_zyz") => (Len(decomp) <= 7 /\ (pc = "done" => result = decomp))

C9_Witness == pc = "done" /\ fn = "ctrl_decomp_zyz" /\ Len(result) = 7 /\ Len(control_wires) = 2

\* C10: the Euler-angle fallback runs only for an operator that exposes no angles, and with
\* recording suppressed: nothing it builds reaches the recording context, recording is
\* restored when the fallback ends, by return or by exception, and a call made inside a
\* recording context records exactly the returned operations, in order.
C10_ZyzFallbackNotRecorded == (fn = "ctrl_decomp_zyz") =>
    /\ (pc \in {"zyz_fallback", "zyz_fallback_exit", "zyz_fallback_raise"} \/ \E i \in 1..Len(calls) : calls[i] \in {"matrix", "zyz_decomposition"}) => ~target_operation.has_angles
    /\ pc \in {"zyz_fallback", "zyz_fallback_exit", "zyz_fallback_raise"} => ~recording
    /\ pc \in {"zyz_emit", "zyz_return", "done", "raised"} => (recording = context_active)
    /\ \A i \in 1..Len(queue) : queue[i].name # "Rot"
    /\ pc \in {"zyz_validate", "zyz_angles", "zyz_fallback", "zyz_fallback_exit", "zyz_fallback_raise", "zyz_emit", "raised"} => queue = <<>>
    /\ pc = "done" => queue = (IF context_active THEN result ELSE <<>>)

C10_Witness == fn = "ctrl_decomp_zyz" /\ pc = "done" /\ context_active /\ recording /\ ~target_operation.has_angles /\ (\E i \in 1..Len(built) : built[i].name = "Rot") /\ queue = result /\ Len(result) = 7

\* C11: ctrl_decomp_bisect_od, given a single-qubit operator whose SU(2)-normalized matrix has
\* an off-diagonal entry with imaginary part of magnitude above 1e-8, raises the ValueError
\* "Target operation's matrix must have real off-diagonal" carrying the normalized matrix,
\* before the root-finder is invoked and before any operation is built.
C11_BisectImagOffDiagonalRejected == (fn = "ctrl_decomp_bisect_od" /\ pc \notin {"idle", "od_validate", "od_matrix"} /\ Len(target_operation.wires) = 1 /\ target_operation.has_matrix) =>
    LET n == convert_to_su2(target_operation.matrix)
        above(x) == x # 0 /\ n.d \div Abs(x) < 100000000
    IN (above(n.m[1][2][2]) \/ above(n.m[2][1][2])) =>
         /\ pc = "raised"
         /\ err.type = "ValueError"
         /\ err.msg = "Target operation's matrix must have real off-diagonal"
         /\ err.mat = n
         /\ \A i \in 1..Len(calls) : calls[i] # "_bisect_compute_a"
         /\ built = <<>> /\ queue = <<>> /\ a = NoMatrix
         /\ decomp = <<>> /\ result = NoResult

C11_Witness == fn = "ctrl_decomp_bisect_od" /\ pc = "raised" /\ target_operation.cls = "PauliX" /\ err.type = "ValueError" /\ err.mat = Mat(1, <<0, 0>>, <<0, -1>>, <<0, -1>>, <<0, 0>>) /\ calls = <<"matrix", "_convert_to_su2">>

\* C12: _bisect_compute_a hands back a matrix only when the solver reports success and the
\* determinant of the solved matrix is within tolerance of 1; it raises a ValueError carrying
\* the target matrix when the solver reports non-convergence and an AssertionError when the
\* determinant check fails; ctrl_decomp_bisect_od propagates either error unchanged, with
\* none of the 8 operations built and nothing returned.
C12_RootFinderErrorsPropagate == (fn = "ctrl_decomp_bisect_od" /\ \E i \in 1..Len(calls) : calls[i] = "_bisect_compute_a") =>
    LET x == sol.x
        num == x[1] * x[1] + x[2] * x[2] + x[3] * x[3] + x[4] * x[4]
        den == x[5] * x[5]
        detclose == Abs(num - den) <= (1001 * den) \div 100000000
        solved == [d |-> x[5], m |-> <<<< <<x[1], x[2]>>, <<-x[3], x[4]>> >>, << <<x[3], x[4]>>, <<x[1], -x[2]>> >>>>]
    IN /\ pc \in {"od_emit", "od_return", "done", "raised"}
       /\ (pc # "raised") <=> (sol.success /\ detclose)
       /\ (pc # "raised") => (a = solved /\ err = NoError)
       /\ ~sol.success => (err.type = "ValueError" /\ err.msg = "Unable to compute A matrix for U matrix" /\ err.mat = u)
       /\ (sol.success /\ ~detclose) => (err.type = "AssertionError" /\ err.msg = "A matrix is not SU(2)" /\ err.mat = solved)
       /\ (pc = "raised") => (a = NoMatrix /\ built = <<>> /\ queue = <<>> /\ decomp = <<>> /\ result = NoResult)

C12_Witness == fn = "ctrl_decomp_bisect_od" /\ pc = "raised" /\ sol.success /\ sol.x = <<10, 0, 6, 0, 10>> /\ err.type = "AssertionError" /\ built = <<>> /\ u = RationalOffDiag

\* C13: in every sequence ctrl_decomp_zyz returns, the RY angles sum to exactly zero (RY(theta/2)
\* and RY(-theta/2) come together, with only the MultiControlledX between them, or not at all)
\* and the RZ angles sum to a value of magnitude at most 1e-6 + 2e-8; so with the two
\* MultiControlledX doing nothing the sequence is a Z rotation of that negligible angle.
C13_ZyzRotationsCancel == (pc = "done" /\ fn = "ctrl_decomp_zyz") =>
    LET n == Len(result)
        angle_of(i, name) == IF result[i].name = name THEN result[i].angle ELSE 0
        sum_rz[i \in 0..n] == IF i = 0 THEN 0 ELSE sum_rz[i - 1] + angle_of(i, "RZ")
        sum_ry[i \in 0..n] == IF i = 0 THEN 0 ELSE sum_ry[i - 1] + angle_of(i, "RY")
        rys == {i \in 1..n : result[i].name = "RY"}
    IN /\ sum_ry[n] = 0
       /\ Cardinality(rys) \in {0, 2}
       /\ \A i \in rys, j \in rys : i < j => (j = i + 2 /\ result[i + 1].name = "MultiControlledX" /\ result[i].angle = -result[j].angle)
       /\ Abs(sum_rz[n]) <= AtolMiddle + 2 * AtolOuter
       /\ \A i \in 1..n : result[i].name \in {"RZ", "RY", "MultiControlledX"}

C13_Witness == pc = "done" /\ fn = "ctrl_decomp_zyz" /\ angles = <<4, 182400000, 802>> /\ Len(result) = 6 /\ result[1].name = "RY" /\ result[4].angle = -403 /\ result[6].angle = 399

\* C14: for every duplicate-free control-wire list of length n given to ctrl_decomp_bisect_od,
\* the halves L (first floor(n/2) wires) and R (the rest) are disjoint, L followed by R is the
\* list, and |R| - |L| is 0 or 1; in each of the four MultiControlledX the control wires and
\* the work wires are disjoint and together are the whole control set; both halves are
\* non-empty when n >= 2, and for n = 1 the gates built from L have no control wire.
C14_BisectHalvesPartitionControls == (pc = "done" /\ fn = "ctrl_decomp_bisect_od" /\ Cardinality({control_wires[i] : i \in 1..Len(control_wires)}) = Len(control_wires)) =>
    LET n == Len(control_wires)
        set(w) == {w[i] : i \in 1..Len(w)}
        L == result[1].control_wires
        R == result[3].control_wires
    IN /\ Len(L) = n \div 2
       /\ L \o R = control_wires
       /\ set(L) \cap set(R) = {}
       /\ Len(R) - Len(L) \in {0, 1}
       /\ \A i \in {1, 3, 5, 7} :
            /\ result[i].name = "MultiControlledX"
            /\ result[i].control_wires = (IF i \in {1, 5} THEN L ELSE R)
            /\ result[i].work_wires = (IF i \in {1, 5} THEN R ELSE L)
            /\ set(result[i].control_wires) \cap set(result[i].work_wires) = {}
            /\ set(result[i].control_wires) \cup set(result[i].work_wires) = set(control_wires)
       /\ n >= 2 => (L # <<>> /\ R # <<>>)
       /\ n = 1 => (L = <<>> /\ R = control_wires)

C14_Witness == pc = "done" /\ fn = "ctrl_decomp_bisect_od" /\ control_wires = <<1>> /\ result[1].control_wires = <<>> /\ result[1].work_wires = <<1>> /\ result[3].control_wires = <<1>> /\ result[5].control_wires = <<>>

====
